---- MODULE Spec2Model ----
(***************************************************************************)
(* Client-side session lifecycle of the medical-system frontend:           *)
(* AuthProvider (Initialize / login / logout over localStorage['token']),  *)
(* PrivateRoute and AppRoutes (route guard), the two axios wrappers        *)
(* (apiClient used by the login page, api used by every data module), the  *)
(* login page's submit handler and the header's logout control.            *)
(***************************************************************************)
EXTENDS Integers, Sequences, FiniteSets, TLC

(***************************************************************************)
(* Bounds of the model.                                                    *)
(***************************************************************************)
\* Date.now() is followed for this many half-second steps
MaxTicks == 3
\* wrapped requests that may be awaiting their response at the same time
MaxInFlight == 1
\* logout timers of the animated header that may be pending at the same time
MaxTimers == 1

(***************************************************************************)
(* Program constants.                                                      *)
(***************************************************************************)
\* AuthContext.tsx: currentTime = Date.now() / 1000
MsPerSec == 1000
\* Login.tsx: exp = floor(Date.now() / 1000) + (24 * 60 * 60)
AdminTtlSec == 86400

\* Date.now() advances in half-second steps, so that instants strictly
\* between two whole seconds occur as well as whole seconds
TickMs == MsPerSec \div 2

(***************************************************************************)
(* Tokens.  A raw token string is modelled by the way jwt-decode treats    *)
(* it: the empty string, a string it rejects, or                           *)
(* header.base64(JSON claims).signature.                                   *)
(***************************************************************************)
Undefined == "undefined"
\* a JSON payload without an exp member: decoded.exp is undefined
NoExp == -1

NoClaims == [nameid |-> Undefined, unique_name |-> Undefined, role |-> Undefined, exp |-> NoExp]

Claims(nameid, uname, role, exp) ==
    [nameid |-> nameid, unique_name |-> uname, role |-> role, exp |-> exp]

\* localStorage.getItem / a response body without token: null
NullToken == [kind |-> "null", claims |-> NoClaims]
EmptyToken == [kind |-> "empty", claims |-> NoClaims]
Jwt(claims) == [kind |-> "jwt", claims |-> claims]

\* a string jwt-decode rejects (no second part, not base64, not JSON)
MalformedToken == [kind |-> "malformed", claims |-> NoClaims]

\* tokens the remote service may answer a login with, or that an earlier
\* session may have left in storage
IssuedTokens ==
    { Jwt(Claims("7", "alice", "Doctor", 1)),
      Jwt(Claims("8", "bob", "Administrator", 2)),
      Jwt(Claims("9", "carol", Undefined, NoExp)),
      MalformedToken }

\* a truthy JavaScript string: neither null nor ""
Truthy(token) == token.kind \notin {"null", "empty"}

\* jwtDecode<JwtPayload>(token): throws InvalidTokenError unless the second
\* part is base64 of a JSON text
DecodeThrows(token) == token.kind # "jwt"
jwtDecode(token) == token.claims

\* JavaScript's decoded.exp > Date.now() / 1000 (undefined > x is false),
\* with Date.now() in milliseconds
ExpGreaterMut(exp, nowMs) == exp # NoExp /\ exp * MsPerSec >= nowMs
ExpGreater(exp, nowMs) == exp # NoExp /\ exp * MsPerSec > nowMs

(***************************************************************************)
(* Session Store (AuthProvider).                                           *)
(***************************************************************************)
NullUser == [id |-> "null", username |-> "null", role |-> "null"]

UserOf(decoded) ==
    [id |-> decoded.nameid, username |-> decoded.unique_name, role |-> decoded.role]

\* the session: the storage slot and the two useState cells, with the
\* exception (if any) that escaped the last operation
Session(st, auth, usr, thrown) ==
    [storage |-> st, isAuthenticated |-> auth, user |-> usr, thrown |-> thrown]

\* useEffect(() => {...}, []) of AuthProvider, with the try/catch removed
InitializeNoCatch(s, nowMs) ==
    LET token == s.storage IN
    IF ~Truthy(token) THEN Session(s.storage, s.isAuthenticated, s.user, "none")
    ELSE IF DecodeThrows(token)
         THEN Session(s.storage, s.isAuthenticated, s.user, "InvalidTokenError")
    ELSE IF ExpGreater(jwtDecode(token).exp, nowMs)
         THEN Session(s.storage, TRUE, UserOf(jwtDecode(token)), "none")
         ELSE Session(NullToken, s.isAuthenticated, s.user, "none")

\* the same with id and username exchanged
InitializeSwapped(s, nowMs) ==
    LET token == s.storage IN
    IF ~Truthy(token) THEN Session(s.storage, s.isAuthenticated, s.user, "none")
    ELSE IF DecodeThrows(token)
         THEN Session(NullToken, s.isAuthenticated, s.user, "none")
    ELSE IF ExpGreater(jwtDecode(token).exp, nowMs)
         THEN Session(s.storage, TRUE,
                      [id |-> jwtDecode(token).unique_name,
                       username |-> jwtDecode(token).nameid,
                       role |-> jwtDecode(token).role], "none")
         ELSE Session(NullToken, s.isAuthenticated, s.user, "none")

\* the same, leaving a token it rejects in the storage slot
InitializeKeepRejected(s, nowMs) ==
    LET token == s.storage IN
    IF ~Truthy(token) \/ DecodeThrows(token)
    THEN Session(s.storage, s.isAuthenticated, s.user, "none")
    ELSE IF ExpGreater(jwtDecode(token).exp, nowMs)
         THEN Session(s.storage, TRUE, UserOf(jwtDecode(token)), "none")
         ELSE Session(s.storage, s.isAuthenticated, s.user, "none")

\* useEffect(() => {...}, []) of AuthProvider
Initialize(s, nowMs) ==
    LET token == s.storage IN
    IF ~Truthy(token) THEN Session(s.storage, s.isAuthenticated, s.user, "none")
    ELSE IF DecodeThrows(token)
         \* catch: invalid token, clear it
         THEN Session(NullToken, s.isAuthenticated, s.user, "none")
    ELSE IF ExpGreater(jwtDecode(token).exp, nowMs)
         THEN Session(s.storage, TRUE, UserOf(jwtDecode(token)), "none")
         \* token is expired, clear it
         ELSE Session(NullToken, s.isAuthenticated, s.user, "none")

\* login that keeps the fields of a user already present
loginMerge(s, token) ==
    IF DecodeThrows(token)
    THEN Session(token, s.isAuthenticated, s.user, "InvalidTokenError")
    ELSE Session(token, TRUE,
                 IF s.user = NullUser THEN UserOf(jwtDecode(token))
                 ELSE [UserOf(jwtDecode(token)) EXCEPT !.role = s.user.role],
                 "none")

\* login that persists the token only when the slot is free
loginNoOverwrite(s, token) ==
    LET st == IF Truthy(s.storage) THEN s.storage ELSE token IN
    IF DecodeThrows(token)
    THEN Session(st, s.isAuthenticated, s.user, "InvalidTokenError")
    ELSE Session(st, TRUE, UserOf(jwtDecode(token)), "none")

\* login that catches the decode failure and falls back to logged out
loginFailSafe(s, token) ==
    IF DecodeThrows(token)
    THEN Session(NullToken, FALSE, NullUser, "none")
    ELSE Session(token, TRUE, UserOf(jwtDecode(token)), "none")

\* login that only persists the token and leaves the state to the next
\* Initialize
loginStoreOnly(s, token) ==
    Session(token, s.isAuthenticated, s.user,
            IF DecodeThrows(token) THEN "InvalidTokenError" ELSE "none")

\* login(token): setItem, jwtDecode (may throw past the two setters), setters
login(s, token) ==
    IF DecodeThrows(token)
    THEN Session(token, s.isAuthenticated, s.user, "InvalidTokenError")
    ELSE Session(token, TRUE, UserOf(jwtDecode(token)), "none")

\* logout that does nothing when the storage slot is already empty
logoutGuarded(s) ==
    IF Truthy(s.storage) THEN Session(NullToken, FALSE, NullUser, "none")
    ELSE Session(s.storage, s.isAuthenticated, s.user, "none")

\* logout without setUser(null)
logoutKeepUser(s) == Session(NullToken, FALSE, s.user, "none")

\* logout(): removeItem, setIsAuthenticated(false), setUser(null)
logout(s) == Session(NullToken, FALSE, NullUser, "none")

(***************************************************************************)
(* Route Guard (PrivateRoute) and route table (AppRoutes).                 *)
(***************************************************************************)
LoginPath == "/login"
Paths == {LoginPath, "/", "/dashboard", "/nowhere"}

NavigateTo(path) == [type |-> "Navigate", name |-> path]
ViewOf(name) == [type |-> "View", name |-> name]

\* a guard that redirects only when it was given no children
PrivateRouteNoChildren(auth, children) == children

\* PrivateRoute: <Navigate to="/login" replace /> unless isAuthenticated
PrivateRoute(auth, children) ==
    IF ~auth THEN NavigateTo(LoginPath) ELSE children

\* the child routes nested under path="/" in AppRoutes
RouteChild(path) ==
    CASE path = "/" -> NavigateTo("/dashboard")
      [] path = "/dashboard" -> ViewOf("Dashboard")
      [] path = "/doctors" -> ViewOf("Doctors")
      [] OTHER -> ViewOf("NotFound")

\* a route table whose catch-all sits beside the guarded routes
AppRoutesOpenCatchAll(path, auth) ==
    IF path = LoginPath THEN ViewOf("Login")
    ELSE IF path \in {"/", "/dashboard"}
         THEN PrivateRoute(auth, RouteChild(path))
         ELSE ViewOf("NotFound")

\* AppRoutes: /login is public, everything else is nested under PrivateRoute
AppRoutes(path, auth) ==
    IF path = LoginPath THEN ViewOf("Login")
    ELSE PrivateRoute(auth, RouteChild(path))

NoGuard == [requested |-> "none", auth |-> FALSE, outcome |-> ViewOf("none")]

\* what the guard did for `path`, or the previous record when the route
\* rendered is not under the guard
GuardEval(path, auth, prev) ==
    IF path = LoginPath THEN prev
    ELSE [requested |-> path, auth |-> auth,
          outcome |-> PrivateRoute(auth, RouteChild(path))]

\* one render of the router at `path` followed by the effects of the
\* <Navigate> elements it produced, until a view is on screen
RECURSIVE Commit(_, _)
Commit(path, auth) ==
    LET el == AppRoutes(path, auth) IN
    IF el.type = "Navigate" THEN Commit(el.name, auth)
    ELSE [location |-> path, view |-> el.name]

(***************************************************************************)
(* HTTP Client Wrappers: apiClient (api/axios.ts, used by the login page)  *)
(* and api (api/apiClient.ts, used by the data modules).                   *)
(***************************************************************************)
LoginEndpoint == "/Auth/Login"
DataEndpoints == {"/Doctor"}

\* response statuses; NetworkFailure stands for an error without response
NetworkFailure == 0
Statuses == {200, 401, 403, 500, NetworkFailure}

\* a request interceptor without the if (token) test
RequestInterceptorAlways(st) == st

\* request interceptor: Authorization: Bearer <token> if storage has one
RequestInterceptor(st) == IF Truthy(st) THEN st ELSE NullToken

\* a response interceptor that spares the login endpoint
ClearsSessionNotLogin(client, endpoint, status) ==
    /\ endpoint # LoginEndpoint
    /\ IF client = "apiClient" THEN status = 401 ELSE status \in {401, 403}

\* a response interceptor that takes every HTTP error for an authentication
\* failure
ClearsSessionAnyError(client, endpoint, status) == status >= 400

\* response interceptors' error handler: does it remove the token and set
\* window.location.href = '/login'?
ClearsSession(client, endpoint, status) ==
    IF client = "apiClient" THEN status = 401 ELSE status \in {401, 403}

\* what the interceptor hands to the awaiting caller: return response, or
\* Promise.reject(error) with the error it was given
Delivered(status) == status

\* the promises still pending once request r has settled: nothing is sent
\* again by the interceptors, by handleSubmit's catch or by useApi's catch
RetryOnFailure(reqs, r, status) ==
    IF status \in {500, NetworkFailure} THEN reqs ELSE reqs \ {r}

Settled(reqs, r, status) == reqs \ {r}

Request(client, endpoint, bearer) ==
    [client |-> client, endpoint |-> endpoint, bearer |-> bearer]

(***************************************************************************)
(* State.                                                                  *)
(***************************************************************************)
VARIABLES
    storage,          \* localStorage['token'] (NullToken: key absent)
    isAuthenticated,  \* AuthProvider state
    user,             \* AuthProvider state
    now,              \* Date.now(), milliseconds
    pc,               \* "loading" -> "mounted" -> "ready" of the document
    location,         \* router location
    view,             \* the route element on screen
    guard,            \* the last evaluation of PrivateRoute
    inflight,         \* wrapped requests awaiting their response
    timers,           \* pending logout timers of the animated header
    reloadPending,    \* window.location.href = '/login' assigned, not yet loaded
    loginError,       \* Login page: error
    loading,          \* Login page: loading
    header,           \* which Header the build contains: "plain" or "animated"
    last,             \* the operation that produced this state
    hooks,            \* Doctors page: data, loading, error of its useApi hooks
    calls,            \* Doctors page: execute invocations awaiting their promise
    issued,           \* Doctors page: number of execute invocations so far
    deleteDialogOpen, \* Doctors page state
    doctorToDelete,   \* Doctors page state
    authHook,         \* the last call of useAuth by a component
    settled           \* the execute invocation that settled last

appVars == <<storage, isAuthenticated, user, now, pc, location, view, guard,
             inflight, timers, reloadPending, loginError, loading, header, last>>

pageVars == <<hooks, calls, issued, deleteDialogOpen, doctorToDelete, authHook,
              settled>>

vars == <<appVars, pageVars>>

\* the record of an operation: its name, the token it was given or found in
\* storage, the user before it, the exception that escaped it
Op(op, token, prevUser, thrown) ==
    [op |-> op, token |-> token, prevUser |-> prevUser, thrown |-> thrown,
     status |-> NetworkFailure, client |-> "none", endpoint |-> "none",
     delivered |-> NetworkFailure, denied |-> "none"]

\* the record of a login(token) call made while the guard's last decision was g
LoginOp(op, token, prevUser, thrown, g) ==
    [Op(op, token, prevUser, thrown) EXCEPT
        !.denied = IF g.requested # "none" /\ ~g.auth THEN g.requested ELSE "none"]

Step(op) == Op(op, NullToken, NullUser, "none")

\* the record of the response `status` to request r
RespOp(r, status, token, prevUser, thrown) ==
    [op |-> "Response", token |-> token, prevUser |-> prevUser, thrown |-> thrown,
     status |-> status, client |-> r.client, endpoint |-> r.endpoint,
     delivered |-> Delivered(status), denied |-> "none"]

Cur == Session(storage, isAuthenticated, user, "none")

\* useApi: useState(null), useState(false), useState(null)
NullData == 0
UndefinedData == -1
IdleHook == [data |-> NullData, loading |-> FALSE, error |-> "null"]
HookNames == {"fetchDoctors", "executeDelete"}

NoDoctor == 0
DoctorIds == {1, 2}

\* what useContext(AuthContext) can give: a context value, or undefined
ContextValue(auth, usr, loginFn, logoutFn) ==
    [defined |-> TRUE, isAuthenticated |-> auth, user |-> usr,
     login |-> loginFn, logout |-> logoutFn]
UndefinedContext ==
    [defined |-> FALSE, isAuthenticated |-> FALSE, user |-> NullUser,
     login |-> "undefined", logout |-> "undefined"]

NotCalled == [called |-> FALSE, inside |-> FALSE, thrown |-> "none",
              returned |-> UndefinedContext]
NoneSettled == [hook |-> "none", id |-> 0, outcome |-> "none",
                returned |-> NullData, rejected |-> FALSE, refetched |-> FALSE]

\* the Doctors page is not mounted and no component has called useAuth
PageIdle ==
    /\ hooks = [h \in HookNames |-> IdleHook]
    /\ calls = {}
    /\ issued = 0
    /\ deleteDialogOpen = FALSE
    /\ doctorToDelete = NoDoctor
    /\ authHook = NotCalled
    /\ settled = NoneSettled

\* tokens a previous visit may have left in localStorage
PersistedTokens == IssuedTokens \cup {NullToken, EmptyToken}

Init ==
    /\ storage \in PersistedTokens
    /\ isAuthenticated = FALSE
    /\ user = NullUser
    /\ now = 0
    /\ pc = "loading"
    /\ location \in Paths
    /\ view = "none"
    /\ guard = NoGuard
    /\ inflight = {}
    /\ timers = 0
    /\ reloadPending = FALSE
    /\ loginError = "null"
    /\ loading = FALSE
    /\ header \in {"plain", "animated"}
    /\ last = Step("Load")
    /\ PageIdle

\* the Login page's state lives only while the page is mounted
LoginPageState(v, err, ld) ==
    IF v = "Login" THEN <<err, ld>> ELSE <<"null", FALSE>>

\* re-render after the session changed to `s` and the router was asked
\* for `path`
Render(s, path, err, ld) ==
    LET c == Commit(path, s.isAuthenticated) IN
    /\ storage' = s.storage
    /\ isAuthenticated' = s.isAuthenticated
    /\ user' = s.user
    /\ location' = c.location
    /\ view' = c.view
    /\ guard' = GuardEval(path, s.isAuthenticated, guard)
    /\ loginError' = LoginPageState(c.view, err, ld)[1]
    /\ loading' = LoginPageState(c.view, err, ld)[2]

(***************************************************************************)
(* Document load, first render and AuthProvider's effect.                  *)
(***************************************************************************)
\* first render: useState(false), useState(null); the children's effects
\* (Navigate) run before AuthProvider's own effect
Mount ==
    /\ pc = "loading"
    /\ pc' = "mounted"
    /\ Render(Cur, location, "null", FALSE)
    /\ last' = Step("Mount")
    /\ UNCHANGED <<now, inflight, timers, reloadPending, header>>
    /\ UNCHANGED pageVars

InitializeEffect ==
    /\ pc = "mounted"
    /\ pc' = "ready"
    /\ LET s == Initialize(Cur, now) IN
       /\ Render(s, location, loginError, loading)
       /\ last' = Op("Initialize", storage, user, s.thrown)
    /\ UNCHANGED <<now, inflight, timers, reloadPending, header>>
    /\ UNCHANGED pageVars

\* a document load at `path`: in-memory state, timers and requests are gone
LoadAt(path) ==
    /\ isAuthenticated' = FALSE
    /\ user' = NullUser
    /\ pc' = "loading"
    /\ location' = path
    /\ view' = "none"
    /\ guard' = NoGuard
    /\ inflight' = {}
    /\ timers' = 0
    /\ reloadPending' = FALSE
    /\ loginError' = "null"
    /\ loading' = FALSE
    /\ last' = Step("Load")
    /\ UNCHANGED <<storage, now, header>>
    /\ UNCHANGED pageVars

\* the navigation forced by window.location.href = '/login' takes place
HardNavigation ==
    /\ pc = "ready"
    /\ reloadPending
    /\ LoadAt(LoginPath)

\* the user reloads the page or opens another address
UserLoad ==
    /\ pc = "ready"
    /\ ~reloadPending
    /\ \E path \in Paths : LoadAt(path)

Tick ==
    /\ pc = "ready"
    /\ now + TickMs <= MaxTicks * TickMs
    /\ now' = now + TickMs
    /\ last' = Step("Tick")
    /\ UNCHANGED <<storage, isAuthenticated, user, header, pc, location, view, guard,
                   inflight, timers, reloadPending, loginError, loading>>
    /\ UNCHANGED pageVars

(***************************************************************************)
(* Login page: handleSubmit.                                               *)
(***************************************************************************)
\* a login page that returns to the destination the guard denied
AfterLoginPathReturn(g) ==
    IF g.requested # "none" /\ ~g.auth THEN g.requested ELSE "/"

\* where handleSubmit navigates after login(token): navigate('/')
AfterLoginPath(g) == "/"

\* createAdminToken without the division by 1000
createAdminTokenMs(nowMs) ==
    Jwt(Claims("admin", "admin", "Administrator", nowMs + AdminTtlSec))

\* createAdminToken(): exp = Math.floor(Date.now() / 1000) + 24 * 60 * 60
createAdminToken(nowMs) ==
    Jwt(Claims("admin", "admin", "Administrator",
               (nowMs \div MsPerSec) + AdminTtlSec))

\* submit with the username or the password left empty
SubmitEmpty ==
    /\ pc = "ready"
    /\ view = "Login"
    /\ ~loading
    /\ loginError' = "Please enter both username and password"
    /\ last' = Step("SubmitEmpty")
    /\ UNCHANGED <<storage, isAuthenticated, user, now, header, pc, location, view,
                   guard, inflight, timers, reloadPending, loading>>
    /\ UNCHANGED pageVars

\* submit admin/admin: login(createAdminToken()); navigate('/'); return
SubmitAdmin ==
    /\ pc = "ready"
    /\ view = "Login"
    /\ ~loading
    /\ LET token == createAdminToken(now)
           s == login(Cur, token) IN
       /\ Render(s, IF s.thrown = "none" THEN AfterLoginPath(guard) ELSE location,
                 "null", TRUE)
       /\ last' = LoginOp("Login", token, user, s.thrown, guard)
    /\ UNCHANGED <<now, pc, inflight, timers, reloadPending, header>>
    /\ UNCHANGED pageVars

\* submit other credentials: apiClient.post(endpoints.login, ...)
SubmitCredentials ==
    /\ pc = "ready"
    /\ view = "Login"
    /\ ~loading
    /\ Cardinality(inflight) < MaxInFlight
    /\ inflight' = inflight \cup
          {Request("apiClient", LoginEndpoint, RequestInterceptor(storage))}
    /\ loginError' = "null"
    /\ loading' = TRUE
    /\ last' = Step("Send")
    /\ UNCHANGED <<storage, isAuthenticated, user, now, header, pc, location, view,
                   guard, timers, reloadPending>>
    /\ UNCHANGED pageVars

(***************************************************************************)
(* Data pages: a request through api.                                      *)
(***************************************************************************)
FetchData ==
    /\ pc = "ready"
    /\ view = "Dashboard"
    /\ Cardinality(inflight) < MaxInFlight
    /\ \E e \in DataEndpoints :
          inflight' = inflight \cup {Request("api", e, RequestInterceptor(storage))}
    /\ last' = Step("Send")
    /\ UNCHANGED <<storage, isAuthenticated, user, now, header, pc, location, view,
                   guard, timers, reloadPending, loginError, loading>>
    /\ UNCHANGED pageVars

(***************************************************************************)
(* A response arrives: the wrapper's response interceptor runs, then the   *)
(* awaiting caller continues.                                              *)
(***************************************************************************)
\* storage after the interceptor
AfterInterceptor(r, status) ==
    IF ClearsSession(r.client, r.endpoint, status) THEN NullToken ELSE storage

\* an interceptor that goes through the Session Store's logout
ResponseInterceptorLogout(s, r, status) ==
    IF ClearsSession(r.client, r.endpoint, status) THEN logout(s) ELSE s

\* the session after the response interceptor: only the storage slot is
\* touched, the AuthProvider's state is out of its reach
ResponseInterceptor(s, r, status) ==
    Session(AfterInterceptor(r, status), s.isAuthenticated, s.user, "none")


\* a login page that takes every 200 for a login
HasTokenAlways(token) == TRUE

\* const { token } = response.data; if (token) ...
HasToken(token) == Truthy(token)

\* the login endpoint answered 200 with `token` in the body (NullToken: no
\* token field): login(token); navigate('/'), or an error message
LoginSucceeded(r) ==
    /\ r.endpoint = LoginEndpoint
    /\ \E token \in IssuedTokens \cup {NullToken} :
          IF HasToken(token)
          THEN LET s == login(Cur, token) IN
               /\ Render(s, IF s.thrown = "none" THEN AfterLoginPath(guard)
                            ELSE location,
                         IF s.thrown = "none" THEN "null"
                         ELSE "An unexpected error occurred", FALSE)
               /\ last' = [RespOp(r, 200, token, user, s.thrown) EXCEPT
                              !.denied = LoginOp("Login", token, user, s.thrown,
                                                 guard).denied]
               /\ UNCHANGED reloadPending
          ELSE /\ Render(Cur, location, "Invalid response from server", FALSE)
               /\ last' = RespOp(r, 200, NullToken, user, "none")
               /\ UNCHANGED reloadPending

\* the login endpoint answered with an error, or not at all
LoginFailed(r) ==
    /\ r.endpoint = LoginEndpoint
    /\ \E status \in Statuses \ {200} :
          /\ Render(ResponseInterceptor(Cur, r, status),
                    location,
                    IF Delivered(status) = 401 THEN "Invalid username or password"
                    ELSE "An error occurred during login", FALSE)
          /\ reloadPending' = (reloadPending \/ ClearsSession(r.client, r.endpoint, status))
          /\ last' = RespOp(r, status, storage, user, "none")

\* a data endpoint answered
DataResponded(r) ==
    /\ r.endpoint # LoginEndpoint
    /\ \E status \in Statuses :
          /\ Render(ResponseInterceptor(Cur, r, status),
                    location, loginError, loading)
          /\ reloadPending' = (reloadPending \/ ClearsSession(r.client, r.endpoint, status))
          /\ last' = RespOp(r, status, storage, user, "none")

Respond ==
    /\ pc = "ready"
    /\ \E r \in inflight :
          /\ \/ LoginSucceeded(r)
             \/ LoginFailed(r)
             \/ DataResponded(r)
          /\ inflight' = Settled(inflight, r, last'.status)
    /\ UNCHANGED <<now, pc, timers, header>>
    /\ UNCHANGED pageVars

(***************************************************************************)
(* Header.                                                                 *)
(***************************************************************************)
\* handleLogout of the plain header: logout(); navigate('/login')
HeaderLogout ==
    /\ pc = "ready"
    /\ header = "plain"
    /\ isAuthenticated
    /\ LET s == logout(Cur) IN
       /\ Render(s, LoginPath, loginError, loading)
       /\ last' = Op("Logout", storage, user, s.thrown)
    /\ UNCHANGED <<now, pc, inflight, timers, reloadPending, header>>
    /\ UNCHANGED pageVars

\* handleLogout of the animated header: setTimeout(() => {...}, 200)
HeaderLogoutClick ==
    /\ pc = "ready"
    /\ header = "animated"
    /\ isAuthenticated
    /\ timers < MaxTimers
    /\ timers' = timers + 1
    /\ last' = Step("Click")
    /\ UNCHANGED <<storage, isAuthenticated, user, now, header, pc, location, view,
                   guard, inflight, reloadPending, loginError, loading>>
    /\ UNCHANGED pageVars

\* the timer fires: logout(); navigate('/login')
LogoutTimer ==
    /\ pc = "ready"
    /\ timers > 0
    /\ timers' = timers - 1
    /\ LET s == logout(Cur) IN
       /\ Render(s, LoginPath, loginError, loading)
       /\ last' = Op("Logout", storage, user, s.thrown)
    /\ UNCHANGED <<now, pc, inflight, reloadPending, header>>
    /\ UNCHANGED pageVars

\* a navigation button of the header (shown when isAuthenticated), or its
\* Login button otherwise: navigate(path)
HeaderNavigate ==
    /\ pc = "ready"
    /\ \E path \in Paths :
          /\ (isAuthenticated /\ path # LoginPath) \/ (~isAuthenticated /\ path = LoginPath)
          /\ Render(Cur, path, loginError, loading)
    /\ last' = Step("Navigate")
    /\ UNCHANGED <<now, pc, inflight, timers, reloadPending, header>>
    /\ UNCHANGED pageVars

Next ==
    \/ Mount
    \/ InitializeEffect
    \/ HardNavigation
    \/ UserLoad
    \/ Tick
    \/ SubmitEmpty
    \/ SubmitAdmin
    \/ SubmitCredentials
    \/ FetchData
    \/ Respond
    \/ HeaderLogout
    \/ HeaderLogoutClick
    \/ LogoutTimer
    \/ HeaderNavigate

Spec == Init /\ [][Next]_vars

\* the browser carries out a navigation it was asked for, React commits the
\* first render and runs the effects of a mounted tree; nothing obliges the
\* user or the remote service to act
FairSpec ==
    /\ Spec
    /\ WF_vars(HardNavigation)
    /\ WF_vars(Mount)
    /\ WF_vars(InitializeEffect)

\* in addition a timer set by setTimeout fires, unless its document is
\* unloaded first
TimerSpec == FairSpec /\ WF_vars(LogoutTimer)

(***************************************************************************)
(* useAuth, useApi and the Doctors page.  The page is on screen in a       *)
(* session that stays as it is; the promises of getDoctors and             *)
(* deleteDoctor settle in any order.                                       *)
(***************************************************************************)
MaxCalls == 3

\* createContext<AuthContextType>({isAuthenticated: false, user: null,
\* login: () => {}, logout: () => {}})
DefaultContext == ContextValue(FALSE, NullUser, "noop", "noop")

\* <AuthContext.Provider value={{ isAuthenticated, user, login, logout }}>
ProviderValue(s) == ContextValue(s.isAuthenticated, s.user, "login", "logout")

\* React: the value of the nearest provider above the caller, or the
\* default the context was created with
useContext(inside, value) == IF inside THEN value ELSE DefaultContext

useAuth(inside, value) ==
    LET context == useContext(inside, value) IN
    IF context = UndefinedContext
    THEN [called |-> TRUE, inside |-> inside, thrown |-> "Error",
          returned |-> UndefinedContext]
    ELSE [called |-> TRUE, inside |-> inside, thrown |-> "none",
          returned |-> context]

\* one invocation of execute and the promise of its apiFunction
Call(hook, id, overlaps, caller) ==
    [hook |-> hook, id |-> id, overlaps |-> overlaps, caller |-> caller,
     state |-> "pending"]

Pending(cs, hook) == {c \in cs : c.hook = hook /\ c.state = "pending"}

\* what the apiFunction resolves to: the list as of this request, or
\* nothing for deleteDoctor
ResultOf(c) == IF c.hook = "executeDelete" THEN UndefinedData ELSE c.id

\* execute up to its await: setLoading(true); setError(null); apiFunction()
Started(hs, cs, n, hook, caller) ==
    [hooks |-> [hs EXCEPT ![hook].loading = TRUE, ![hook].error = "null"],
     calls |-> cs \cup {Call(hook, n + 1, Pending(cs, hook) # {}, caller)},
     issued |-> n + 1]

\* an execute without the catch
executeRethrow(h, c, outcome) ==
    IF outcome = "resolved"
    THEN [state |-> [h EXCEPT !.data = ResultOf(c), !.loading = FALSE],
          returned |-> ResultOf(c), rejected |-> FALSE]
    ELSE [state |-> [h EXCEPT !.loading = FALSE],
          returned |-> NullData, rejected |-> TRUE]

\* execute after its await: setData(result); return result, or
\* setError(errorObj); return null, and setLoading(false) in both cases
execute(h, c, outcome) ==
    IF outcome = "resolved"
    THEN [state |-> [h EXCEPT !.data = ResultOf(c), !.loading = FALSE],
          returned |-> ResultOf(c), rejected |-> FALSE]
    ELSE [state |-> [h EXCEPT !.error = "Error", !.loading = FALSE],
          returned |-> NullData, rejected |-> FALSE]

PageInit ==
    /\ \E t \in {tk \in IssuedTokens : ~DecodeThrows(tk)} :
          LET s == login(Session(NullToken, FALSE, NullUser, "none"), t) IN
          /\ storage = s.storage
          /\ isAuthenticated = s.isAuthenticated
          /\ user = s.user
    /\ now = 0
    /\ pc = "ready"
    /\ location = Commit("/doctors", TRUE).location
    /\ view = Commit("/doctors", TRUE).view
    /\ guard = GuardEval("/doctors", TRUE, NoGuard)
    /\ inflight = {}
    /\ timers = 0
    /\ reloadPending = FALSE
    /\ loginError = "null"
    /\ loading = FALSE
    /\ header \in {"plain", "animated"}
    /\ last = Step("Navigate")
    /\ PageIdle

\* a component calls useAuth, below an AuthProvider or not
CallUseAuth ==
    /\ \E inside \in BOOLEAN : authHook' = useAuth(inside, ProviderValue(Cur))
    /\ UNCHANGED <<appVars, hooks, calls, issued, deleteDialogOpen, doctorToDelete,
                   settled>>

\* useEffect(() => { fetchDoctors(); }, [fetchDoctors])
DoctorsEffect ==
    /\ issued = 0
    /\ LET st == Started(hooks, calls, issued, "fetchDoctors", "useEffect") IN
       /\ hooks' = st.hooks
       /\ calls' = st.calls
       /\ issued' = st.issued
    /\ UNCHANGED <<appVars, deleteDialogOpen, doctorToDelete, authHook, settled>>

handleDeleteDoctor ==
    /\ issued > 0
    /\ ~deleteDialogOpen
    /\ \E d \in DoctorIds : doctorToDelete' = d
    /\ deleteDialogOpen' = TRUE
    /\ UNCHANGED <<appVars, hooks, calls, issued, authHook, settled>>

\* onClose and the Cancel button: setDeleteDialogOpen(false)
closeDialog ==
    /\ deleteDialogOpen
    /\ deleteDialogOpen' = FALSE
    /\ UNCHANGED <<appVars, hooks, calls, issued, doctorToDelete, authHook, settled>>

\* confirmDelete up to its await: executeDelete(doctorToDelete.id); the
\* bound keeps room for the fetchDoctors() that follows
confirmDelete ==
    /\ deleteDialogOpen
    /\ doctorToDelete # NoDoctor
    /\ issued + 2 <= MaxCalls
    /\ LET st == Started(hooks, calls, issued, "executeDelete", "confirmDelete") IN
       /\ hooks' = st.hooks
       /\ calls' = st.calls
       /\ issued' = st.issued
    /\ UNCHANGED <<appVars, deleteDialogOpen, doctorToDelete, authHook, settled>>

\* the promise of one invocation settles: execute finishes, and the caller
\* that awaited it goes on (confirmDelete: fetchDoctors();
\* setDeleteDialogOpen(false); setDoctorToDelete(null) unless execute threw)
Settle ==
    \E c \in calls, outcome \in {"resolved", "rejected"} :
       /\ c.state = "pending"
       /\ LET e == execute(hooks[c.hook], c, outcome)
              hs == [hooks EXCEPT ![c.hook] = e.state]
              cs == (calls \ {c}) \cup {[c EXCEPT !.state = outcome]}
              goesOn == c.caller = "confirmDelete" /\ ~e.rejected
              st == IF goesOn
                    THEN Started(hs, cs, issued, "fetchDoctors", "refetch")
                    ELSE [hooks |-> hs, calls |-> cs, issued |-> issued]
          IN /\ hooks' = st.hooks
             /\ calls' = st.calls
             /\ issued' = st.issued
             /\ deleteDialogOpen' = (deleteDialogOpen /\ ~goesOn)
             /\ doctorToDelete' = IF goesOn THEN NoDoctor ELSE doctorToDelete
             /\ settled' = [hook |-> c.hook, id |-> c.id, outcome |-> outcome,
                            returned |-> e.returned, rejected |-> e.rejected,
                            refetched |-> goesOn]
       /\ UNCHANGED <<appVars, authHook>>

PageNext ==
    \/ CallUseAuth
    \/ DoctorsEffect
    \/ handleDeleteDoctor
    \/ closeDialog
    \/ confirmDelete
    \/ Settle

PageSpec == PageInit /\ [][PageNext]_vars

(***************************************************************************)
(* Properties.                                                             *)
(***************************************************************************)
\* the token decodes and all four members of JwtPayload are present
WellFormed(token) ==
    /\ Truthy(token)
    /\ ~DecodeThrows(token)
    /\ jwtDecode(token).exp # NoExp
    /\ Undefined \notin {jwtDecode(token).nameid, jwtDecode(token).unique_name,
                         jwtDecode(token).role}

\* login(token) was the last thing to run, from the admin shortcut or from
\* the continuation of a successful login request
LoginCalled ==
    \/ last.op = "Login"
    \/ /\ last.op = "Response"
       /\ last.endpoint = LoginEndpoint
       /\ last.status = 200
       /\ Truthy(last.token)

\* C1: once the application is initialised, an Identity is present if and
\* only if the token held in storage decodes and its expiry instant has not
\* passed; in particular an absent storage key means logged out.  (A payload
\* without expiry instant is counted as not expired here.)
C1_IdentityIffStoredTokenValid ==
    pc = "ready" =>
        /\ (user # NullUser) <=>
              /\ Truthy(storage)
              /\ ~DecodeThrows(storage)
              /\ \/ jwtDecode(storage).exp = NoExp
                 \/ jwtDecode(storage).exp * MsPerSec > now
        /\ storage = NullToken => (~isAuthenticated /\ user = NullUser)

\* C2: Initialize on a persisted token that is undecodable, or whose expiry
\* instant lies in the past, ends unauthenticated, without Identity, and no
\* exception escapes it.
C2_InitializeRejectsBadToken ==
    (/\ last.op = "Initialize"
     /\ Truthy(last.token)
     /\ \/ DecodeThrows(last.token)
        \/ /\ jwtDecode(last.token).exp # NoExp
           /\ jwtDecode(last.token).exp * MsPerSec < now)
    => (~isAuthenticated /\ user = NullUser /\ last.thrown = "none")

C2_Witness ==
    /\ last.op = "Initialize"
    /\ WellFormed(last.token)
    /\ jwtDecode(last.token).exp * MsPerSec < now
    /\ ~isAuthenticated

\* C3: Initialize on a persisted well-formed token whose expiry instant lies
\* in the future ends authenticated, the Identity's id, username and role are
\* the payload's nameid, unique_name and role, and the token stays stored.
C3_InitializeAcceptsValidToken ==
    (/\ last.op = "Initialize"
     /\ WellFormed(last.token)
     /\ jwtDecode(last.token).exp * MsPerSec > now)
    => /\ isAuthenticated
       /\ user.id = last.token.claims.nameid
       /\ user.username = last.token.claims.unique_name
       /\ user.role = last.token.claims.role
       /\ storage = last.token
       /\ last.thrown = "none"

C3_Witness ==
    /\ last.op = "Initialize"
    /\ WellFormed(last.token)
    /\ now > 0
    /\ jwtDecode(last.token).exp * MsPerSec > now
    /\ isAuthenticated

\* C4: a token expiring at T which Initialize checks at exactly T is expired;
\* Initialize authenticates only when expiry is strictly greater than now.
C4_ExpiryIsStrict ==
    last.op = "Initialize" =>
        /\ (WellFormed(last.token) /\ jwtDecode(last.token).exp * MsPerSec = now)
              => (~isAuthenticated /\ user = NullUser)
        /\ isAuthenticated => jwtDecode(last.token).exp * MsPerSec > now

C4_Witness ==
    /\ last.op = "Initialize"
    /\ WellFormed(last.token)
    /\ jwtDecode(last.token).exp * MsPerSec = now
    /\ user = NullUser

\* C5: after Login(t) with a decodable t, whatever the session before, the
\* state read shows authenticated = true and the Identity of t alone.
C5_LoginReplacesIdentity ==
    (LoginCalled /\ ~DecodeThrows(last.token))
    => /\ isAuthenticated
       /\ user = UserOf(jwtDecode(last.token))
       /\ last.thrown = "none"

C5_Witness ==
    /\ LoginCalled
    /\ ~DecodeThrows(last.token)
    /\ last.prevUser # NullUser
    /\ last.prevUser.role # UserOf(jwtDecode(last.token)).role
    /\ isAuthenticated

C8_GuardDecidesByFlag ==
    guard.requested # "none" =>
        guard.outcome = IF guard.auth THEN RouteChild(guard.requested)
                        ELSE NavigateTo(LoginPath)

C8_Witness ==
    /\ pc = "ready"
    /\ guard.requested = "/nowhere"
    /\ guard.auth
    /\ guard.outcome = ViewOf("NotFound")
    /\ view = "NotFound"

\* C9: no view other than the login view is on screen while the
\* authenticated flag is false, the catch-all for unknown paths included.
C9_ProtectedViewsNeedAuth ==
    view \notin {"Login", "none"} => isAuthenticated

C9_Witness ==
    /\ last.op = "Logout"
    /\ guard.requested = "/nowhere"
    /\ view = "Login"
    /\ ~isAuthenticated

\* C10: after the response interceptor has handled a 401, from whichever
\* wrapper and endpoint, the storage entry is absent.
C10_Unauthorized401ClearsStorage ==
    (last.op = "Response" /\ last.status = 401) => storage = NullToken

C10_Witness ==
    /\ last.op = "Response"
    /\ last.status = 401
    /\ last.endpoint = LoginEndpoint
    /\ Truthy(last.token)
    /\ storage = NullToken

(***************************************************************************)
(* Properties of the HTTP wrappers, the login page and the frame of the    *)
(* Session Store.                                                          *)
(***************************************************************************)
BadCredentials == "Invalid username or password"
AdminUser == [id |-> "admin", username |-> "admin", role |-> "Administrator"]

\* C11: the response interceptor treats 403 like 401 on every wrapped
\* request, the login endpoint included: token removed, hard navigation to
\* the login view requested.
C11_ForbiddenTreatedAsUnauthorized ==
    (last.op = "Response" /\ last.status \in {401, 403})
    => (storage = NullToken /\ reloadPending)

\* C12: on a success, an error status other than 401/403 or a failure
\* without response the interceptor leaves storage alone (only login(token)
\* of the awaiting login page writes it), requests no navigation and hands
\* on what it received.
C12_OtherOutcomesPassThrough ==
    [][(last'.op = "Response" /\ last'.status \notin {401, 403})
       => /\ reloadPending' = reloadPending
          /\ last'.delivered = last'.status
          /\ storage' = IF LoginCalled' THEN last'.token ELSE storage]_vars

C12_Witness ==
    /\ last.op = "Response"
    /\ last.status = NetworkFailure
    /\ last.client = "api"
    /\ Truthy(storage)
    /\ ~reloadPending

\* C13: after any 401 or 403 response on a wrapped request the system
\* eventually is logged out with the login view on screen.
C13_AuthFailureLeadsToLoggedOut ==
    (last.op = "Response" /\ last.status \in {401, 403})
    ~> (storage = NullToken /\ ~isAuthenticated /\ user = NullUser /\ view = "Login")

\* C14: a request carries the bearer credential of t exactly when storage
\* holds t at the moment it is sent, whatever the in-memory session says,
\* and no authorization header when storage holds no token.
C14_BearerReadFromStorage ==
    [][last'.op = "Send"
       => /\ \A r \in inflight' \ inflight :
                r.bearer = IF Truthy(storage) THEN storage ELSE NullToken
          /\ \E r \in inflight' :
                r.bearer = IF Truthy(storage) THEN storage ELSE NullToken]_vars

C14_Witness ==
    /\ last.op = "Send"
    /\ isAuthenticated
    /\ storage = NullToken
    /\ inflight # {}
    /\ \A r \in inflight : r.bearer = NullToken

\* C15: admin/admin sends no request; the token is minted locally, expires
\* 24 hours after the current time (to the second, exp being in seconds),
\* and Login with it gives authenticated = true and the admin Identity.
C15_AdminBypassIsLocal ==
    [][last'.op = "Login"
       => /\ inflight' = inflight
          /\ storage' = last'.token
          /\ isAuthenticated'
          /\ user' = AdminUser
          /\ jwtDecode(last'.token).exp * MsPerSec <= now + AdminTtlSec * MsPerSec
          /\ jwtDecode(last'.token).exp * MsPerSec > now + AdminTtlSec * MsPerSec - MsPerSec]_vars

C15_Witness ==
    /\ last.op = "Login"
    /\ now = TickMs
    /\ inflight = {}
    /\ isAuthenticated
    /\ user = AdminUser
    /\ view = "Dashboard"

\* a step the user takes: a submit, a click, a load the user asked for
UserStep ==
    \/ last'.op \in {"SubmitEmpty", "Send", "Login", "Navigate", "Click"}
    \/ last'.op = "Logout" /\ timers' = timers
    \/ last'.op = "Load" /\ ~reloadPending

\* C16: a 401 from the login endpoint puts the bad-credentials message on
\* the login view, other errors put another message there, and the
\* bad-credentials message stays until the user's next action.
C16_BadCredentialsMessageStays ==
    [][/\ (last'.op = "Response" /\ last'.endpoint = LoginEndpoint
             /\ last'.status # 200 /\ view' = "Login")
          => (loginError' = BadCredentials <=> last'.status = 401)
       /\ (loginError = BadCredentials /\ loginError' # BadCredentials)
          => UserStep]_vars

\* C17: nothing is sent again: a response removes its request and adds
\* none, a submit or fetch adds at most one, no other step adds any.
C17_NoRetry ==
    [][/\ last'.op = "Response"
          => /\ inflight' \subseteq inflight
             /\ Cardinality(inflight') = Cardinality(inflight) - 1
       /\ last'.op = "Send" => Cardinality(inflight' \ inflight) <= 1
       /\ last'.op \notin {"Response", "Send"} => inflight' \subseteq inflight]_vars

C17_Witness ==
    /\ last.op = "Response"
    /\ last.status \in {500, NetworkFailure}
    /\ last.endpoint = LoginEndpoint
    /\ loginError = "An error occurred during login"
    /\ inflight = {}

\* C18: the destination the guard denied is forgotten: a successful login
\* takes the user to '/', whose index route shows the dashboard.
C18_LoginGoesToDefaultView ==
    (LoginCalled /\ last.thrown = "none")
    => (location = "/dashboard" /\ view = "Dashboard")

C18_Witness ==
    /\ LoginCalled
    /\ last.thrown = "none"
    /\ last.denied = "/nowhere"
    /\ location = "/dashboard"

\* C19: Login with a token that does not decode has written it to storage,
\* lets the decode exception out to its caller and leaves the flag and the
\* Identity as they were.
C19_LoginFailsFast ==
    [][(LoginCalled' /\ DecodeThrows(last'.token))
       => /\ storage' = last'.token
          /\ last'.thrown = "InvalidTokenError"
          /\ isAuthenticated' = isAuthenticated
          /\ user' = user]_vars

C19_Witness ==
    /\ LoginCalled
    /\ DecodeThrows(last.token)
    /\ last.thrown = "InvalidTokenError"
    /\ last.prevUser # NullUser
    /\ user = last.prevUser
    /\ storage = last.token

\* C20: the flag and the Identity change only in Initialize, Login and
\* Logout (a document load starts a new AuthProvider); guard evaluations and
\* the interceptors, on 401/403 too, leave them as they are.
C20_SessionStateFrame ==
    [][(isAuthenticated' # isAuthenticated \/ user' # user)
       => \/ last'.op \in {"Initialize", "Login", "Logout", "Load"}
          \/ LoginCalled']_vars

C20_Witness ==
    /\ last.op = "Response"
    /\ last.status = 403
    /\ last.client = "api"
    /\ storage = NullToken
    /\ isAuthenticated
    /\ user = last.prevUser
    /\ user # NullUser

(***************************************************************************)
(* Properties of the login flow, of Initialize and of the store's state.   *)
(***************************************************************************)
NoTokenInResponse ==
    /\ last.op = "Response"
    /\ last.endpoint = LoginEndpoint
    /\ last.status = 200
    /\ ~Truthy(last.token)

\* C21 as stated: after every login submit that obtained a token (from the
\* remote service or from the admin bypass) the navigation to '/' is
\* evaluated by the guard with authenticated = true and a protected view is
\* shown.
C21_LoginWithTokenAdmits ==
    LoginCalled
    => /\ guard = [requested |-> "/", auth |-> TRUE, outcome |-> RouteChild("/")]
       /\ view \notin {"Login", "none"}

\* C21, amended: the same for every login submit whose token decodes.
C21_DecodableLoginAdmits ==
    (LoginCalled /\ ~DecodeThrows(last.token))
    => /\ guard = [requested |-> "/", auth |-> TRUE, outcome |-> RouteChild("/")]
       /\ view \notin {"Login", "none"}

C21_Witness ==
    /\ LoginCalled
    /\ last.op = "Response"
    /\ ~DecodeThrows(last.token)
    /\ last.prevUser = NullUser
    /\ guard.auth
    /\ view = "Dashboard"

\* C22: right after Initialize storage holds a token if and only if
\* authenticated = true, and an absent token is still absent.
C22_InitializeKeepsOnlyAcceptedToken ==
    last.op = "Initialize"
    => /\ Truthy(storage) <=> isAuthenticated
       /\ last.token = NullToken => storage = NullToken

C22_Witness ==
    /\ last.op = "Initialize"
    /\ WellFormed(last.token)
    /\ ~ExpGreater(jwtDecode(last.token).exp, now)
    /\ storage = NullToken
    /\ ~isAuthenticated

\* C24: a 200 from the login endpoint without token does not call Login:
\* storage, flag and Identity are as before, the location and the view stay,
\* and the login view (if still on screen) shows an error.
C24_LoginWithoutTokenIsAnError ==
    [][NoTokenInResponse'
       => /\ last'.thrown = "none"
          /\ storage' = storage
          /\ isAuthenticated' = isAuthenticated
          /\ user' = user
          /\ location' = location
          /\ view' = view
          /\ view' = "Login" => loginError' = "Invalid response from server"]_vars

C24_Witness ==
    /\ NoTokenInResponse
    /\ view = "Login"
    /\ loginError = "Invalid response from server"
    /\ ~isAuthenticated
    /\ storage = NullToken

\* C25: in every state the authenticated flag is true if and only if the
\* Identity is non-null.
C25_FlagIffIdentity == isAuthenticated <=> user # NullUser

C25_Witness ==
    /\ last.op = "Logout"
    /\ last.prevUser # NullUser
    /\ ~isAuthenticated
    /\ user = NullUser

(***************************************************************************)
(* Properties of the start of the application, of late responses and of    *)
(* the deferred logout.                                                    *)
(***************************************************************************)
\* C26: a start at a protected view with a valid, unexpired token in
\* storage admits the user to that view: neither the first render nor
\* Initialize leaves the guard's redirect to the login view in effect.
C26_StartWithValidTokenAdmits ==
    (/\ last.op \in {"Mount", "Initialize"}
     /\ guard.requested # "none"
     /\ WellFormed(storage)
     /\ ExpGreater(jwtDecode(storage).exp, now))
    => /\ guard.outcome # NavigateTo(LoginPath)
       /\ view # "Login"

\* C27: a 401/403 response to a request that was sent with the token of an
\* earlier session (another token than the one a later Login stored) leaves
\* the stored token in place and forces no navigation.
C27_LateResponseSparesNewSession ==
    [][(/\ last'.op = "Response"
        /\ last'.status \in {401, 403}
        /\ Truthy(storage)
        /\ \E r \in inflight \ inflight' : Truthy(r.bearer) /\ r.bearer # storage)
       => /\ storage' = storage
          /\ reloadPending' = reloadPending]_vars

LoggedOutAtLogin ==
    /\ ~isAuthenticated
    /\ storage = NullToken
    /\ view = "Login"

\* C30: every click on the header's logout control is eventually followed
\* by a state with authenticated = false, no storage entry and the login
\* view on screen.
C30_LogoutClickLeadsToLoggedOut ==
    (last.op = "Click" \/ (last.op = "Logout" /\ header = "plain"))
    ~> LoggedOutAtLogin

(***************************************************************************)
(* Properties of useAuth and useApi.                                       *)
(***************************************************************************)
\* C23: useAuth raises an Error when its caller is not inside an
\* AuthProvider and returns the provider's context otherwise.
C23_UseAuthThrowsOutsideProvider ==
    authHook.called
    => IF authHook.inside
       THEN authHook.thrown = "none" /\ authHook.returned = ProviderValue(Cur)
       ELSE authHook.thrown = "Error"

\* the invocations of hook h have all resolved and two of them overlapped
BothCompleted(h) ==
    LET hc == {c \in calls : c.hook = h} IN
    /\ \E c \in hc : c.overlaps
    /\ \A c \in hc : c.state = "resolved"

\* C28: when execute was invoked again while an earlier invocation of the
\* same hook was in flight and both have completed, data holds the result
\* of the invocation issued last.
C28_LatestInvocationWins ==
    \A h \in HookNames :
       BothCompleted(h)
       => \E c \in calls :
             /\ c.hook = h
             /\ \A d \in calls : d.hook = h => d.id <= c.id
             /\ hooks[h].data = ResultOf(c)

\* C29: execute never rejects: when the apiFunction fails it resolves to
\* null, records the error, leaves data as it was and resets loading, and
\* confirmDelete goes on as after a success: list refetched, dialog closed,
\* selected doctor cleared.
C29_ExecuteNeverRejects ==
    [][(settled' # settled /\ settled'.outcome = "rejected")
       => /\ ~settled'.rejected
          /\ settled'.returned = NullData
          /\ hooks'[settled'.hook].error = "Error"
          /\ hooks'[settled'.hook].data = hooks[settled'.hook].data
          /\ ~hooks'[settled'.hook].loading
          /\ settled'.hook = "executeDelete"
             => /\ ~deleteDialogOpen'
                /\ doctorToDelete' = NoDoctor
                /\ \E c \in calls' : /\ c.hook = "fetchDoctors"
                                     /\ c.id = issued'
                                     /\ c.state = "pending"]_vars

C29_Witness ==
    /\ settled.hook = "executeDelete"
    /\ settled.outcome = "rejected"
    /\ hooks["executeDelete"].error = "Error"
    /\ ~deleteDialogOpen
    /\ doctorToDelete = NoDoctor
    /\ Pending(calls, "fetchDoctors") # {}

====
